---- MODULE Spec2Model ----
(***************************************************************************)
(* Model of the Telegram service of claude-hooks: sendTelegramMessage      *)
(* (src/unnamed/part_002) sends one message to every configured user and   *)
(* polls the Bot API for a button press or a text that matches one of the  *)
(* caller's callbacks.  The Bot API, the clock and the callers' handlers   *)
(* are the environment.                                                    *)
(*                                                                         *)
(* A text (message text, callback data, exact command) is a sequence of    *)
(* tokens; the token " " is one whitespace character, every other token a  *)
(* run of non-whitespace characters.  A RegExp command is one of the       *)
(* family the hooks build, ^w1\s+w2\s+...\s+(.+)$, given by its words.      *)
(***************************************************************************)
EXTENDS Integers, Sequences, FiniteSets, TLC

VARIABLES
    textLen,        \* textToSend.length
    callbacks,      \* the callbacks argument
    config,         \* the config argument
    pc,             \* position in sendTelegramMessage
    result,         \* the value returned (NoText until a return)
    error,          \* the error thrown ("none" until a throw)
    sendIdx,        \* index of the next user of the send loop
    startTime,      \* const startTime = Date.now()
    lastUpdateId,   \* let lastUpdateId
    batch,          \* updates of the current for-loop not yet visited
    now,            \* Date.now()
    events,         \* every update the Bot API has received, by update_id
    confirmed,      \* the Bot API forgot the updates with update_id < confirmed
    calls,          \* number of Bot API calls issued, per method
    log,            \* acknowledgements and handler invocations, in order
    examined,       \* update_ids visited by the for-loop, in order
    oldIds,         \* update_ids that arrived before the first sendMessage
    fetches,        \* polling getUpdates calls: [ok, failed]
    busy,           \* time spent in Bot API calls since the last deadline check
    faults,         \* the calls outside the polling try that threw
    hook,           \* the permission hook that calls sendTelegramMessage, if any
    other,          \* a second sendTelegramMessage of another process, if any
    clearedIds      \* update_ids of oldUpdates, what the priming getUpdates returned

vars == <<textLen, callbacks, config, pc, result, error, sendIdx, startTime,
          lastUpdateId, batch, now, events, confirmed, calls, log, examined,
          oldIds, fetches, busy, faults, hook, other, clearedIds>>

----------------------------------------------------------------------------
(* Bounds of the model *)

MaxEvents == 2
MaxTime == 2500
LatencyMs == 500

(* Program constants *)

TELEGRAM_MAX_LENGTH == 4096
MinPollIntervalMs == 1000

----------------------------------------------------------------------------
(* Texts and commands *)

NoText == <<>>
SP == " "
StopS1 == <<"/stop", SP, "s1">>
ContinueS1Fix == <<"/continue", SP, "s1", SP, "fix">>
Hello == <<"hello">>

Payloads == {NoText, StopS1, ContinueS1Fix, Hello}

Max(a, b) == IF a >= b THEN a ELSE b

\* Skip a run of whitespace tokens: the position of the first token at or
\* after i that is not whitespace.
RECURSIVE SkipSpaces(_, _)
SkipSpaces(s, i) ==
    IF i <= Len(s) /\ s[i] = SP THEN SkipSpaces(s, i + 1) ELSE i

\* RegExp ^w1\s+w2\s+...\s+(.+)$ run on s from position i with the words ws
\* still to match: <<>> when it does not match, otherwise <<group 1>>.
\* Every word is followed by \s+, so it must equal a whole token and be
\* followed by whitespace.  \s+ is greedy; after the last word, when it has
\* eaten the rest of the text, it gives one whitespace back to (.+), which
\* needs at least one character.
RECURSIVE RegExpExec(_, _, _)
RegExpExec(ws, s, i) ==
    IF ws = <<>>
    THEN IF i > Len(s) THEN <<>> ELSE <<SubSeq(s, i, Len(s))>>
    ELSE IF i > Len(s) \/ s[i] # Head(ws) \/ i + 1 > Len(s) \/ s[i + 1] # SP
         THEN <<>>
         ELSE LET j == SkipSpaces(s, i + 1)
                  k == IF j > Len(s) /\ Tail(ws) = <<>> THEN j - 1 ELSE j
              IN  IF k <= i + 1 THEN <<>> ELSE RegExpExec(Tail(ws), s, k)

\* cb.command.test(s)
RegExpTest(cmd, s) == RegExpExec(cmd.words, s, 1) # <<>>

\* Variant: a string command is compared up to the session id.
SameSessionMatches(cb, s) ==
    IF cb.isRegExp THEN RegExpTest(cb.command, s)
    ELSE /\ Len(s) >= 3 /\ Len(cb.command) >= 3
         /\ SubSeq(s, 1, 3) = SubSeq(cb.command, 1, 3)

\* typeof cb.command === "string" ? s === cb.command : cb.command.test(s)
CommandMatches(cb, s) ==
    IF cb.isRegExp THEN RegExpTest(cb.command, s) ELSE s = cb.command

\* Variant: the handler always gets the text.
RawArgument(cb, s) == s

\* The argument handed to the handler: the text for a string command, the
\* match array <<full match, group 1>> for a RegExp command.
HandlerArgument(cb, s) ==
    IF cb.isRegExp
    THEN <<s>> \o RegExpExec(cb.command.words, s, 1)
    ELSE s

Exact(type, text) ==
    [type |-> type, isRegExp |-> FALSE, command |-> text]
Pattern(type, words) ==
    [type |-> type, isRegExp |-> TRUE, command |-> [words |-> words]]

\* The callbacks of the stop hook for session s1.
StopHookCallbacks ==
    << Exact("inline-button", StopS1),
       Pattern("hidden", <<"/continue", "s1">>) >>

\* Callbacks whose patterns overlap, on a button press and on a text.
OverlapCallbacks ==
    << Pattern("inline-button", <<"/stop">>),
       Exact("inline-button", StopS1),
       Pattern("hidden", <<"/continue">>),
       Pattern("hidden", <<"/continue", "s1">>) >>

CallbackLists == {StopHookCallbacks, OverlapCallbacks}

----------------------------------------------------------------------------
(* Configuration and the Bot API *)

\* config.telegramUserIds; user 99 is a stranger.
TelegramUserIds == <<42, 43>>

\* (telegramTimeoutMs, telegramPollIntervalMs) of the runs explored.
Timings == { <<0, 0>>, <<500, 200>>, <<1000, 1500>> }

Configs ==
    { [telegramUserIds |-> TelegramUserIds,
       telegramTimeoutMs |-> t[1],
       telegramPollIntervalMs |-> t[2]] : t \in Timings }

TextLengths == {TELEGRAM_MAX_LENGTH, TELEGRAM_MAX_LENGTH + 1}

\* How long a getUpdates call may take.
Delays == {0, LatencyMs}

\* What a user may do.  User 42 presses a button whose data matches a button
\* callback, matches only a hidden callback, or is missing, or writes a text
\* that equals a button command, matches a hidden pattern, or matches
\* nothing; the stranger presses the button or writes a text that matches.
Inputs ==
    ([kind : {"callback_query"}, from : {42},
      data : {StopS1, ContinueS1Fix, NoText}])
    \cup ([kind : {"message"}, from : {42},
           data : {StopS1, ContinueS1Fix, Hello}])
    \cup {[kind |-> "callback_query", from |-> 99, data |-> StopS1],
          [kind |-> "message", from |-> 99, data |-> ContinueS1Fix]}

\* getUpdates({offset}): the updates not yet forgotten with update_id >= offset,
\* in ascending update_id order.
UpdatesFrom(offset) ==
    SubSeq(events, Max(Max(offset, confirmed), 1), Len(events))

\* getUpdates({}) without offset: every update not yet forgotten.
PendingUpdates == UpdatesFrom(confirmed)

\* The update_ids of a batch.
UpdateIds(updates) == { updates[k].update_id : k \in DOMAIN updates }

----------------------------------------------------------------------------
(* The permission hook's request: session s1, tool use t1 *)

ApproveS1T1 == <<"/approve", SP, "s1", SP, "t1">>
DenyS1T1 == <<"/deny", SP, "s1", SP, "t1">>
\* The approve button of an earlier request of the session.
ApproveS1T0 == <<"/approve", SP, "s1", SP, "t0">>
\* The approve button of a request of another session with the same tool use.
ApproveS2T1 == <<"/approve", SP, "s2", SP, "t1">>

PermissionPayloads == {ApproveS1T1, DenyS1T1, ApproveS1T0, ApproveS2T1}

\* const callbacks: TelegramCallback[] of the permission hook.
PermissionCallbacks ==
    << Exact("inline-button", ApproveS1T1),
       Exact("inline-button", DenyS1T1) >>

\* What a user may do while the permission hook waits: user 42 presses the
\* approve or the deny button of this request or the approve button of an
\* earlier request or of another session, or writes the approve command of
\* this request or of an earlier one, or another text; the stranger presses
\* the approve button.
PermissionInputs ==
    ([kind : {"callback_query"}, from : {42},
      data : {ApproveS1T1, DenyS1T1, ApproveS1T0, ApproveS2T1}])
    \cup ([kind : {"message"}, from : {42},
           data : {ApproveS1T1, ApproveS1T0, Hello}])
    \cup {[kind |-> "callback_query", from |-> 99, data |-> ApproveS1T1]}

\* sendTelegramMessage called on its own, by no hook.
NoHook == [pc |-> "none"]

----------------------------------------------------------------------------
(* A second exchange, of the stop hook of session s2 in another process *)

StopS2 == <<"/stop", SP, "s2">>

OtherCallbacks ==
    << Exact("inline-button", StopS2),
       Pattern("hidden", <<"/continue", "s2">>) >>

\* What a user may do while both exchanges wait: user 42 presses the stop
\* button of session s1 or of session s2, or writes a text that matches
\* nothing.
PairInputs ==
    { [kind |-> "callback_query", from |-> 42, data |-> StopS1],
      [kind |-> "callback_query", from |-> 42, data |-> StopS2],
      [kind |-> "message", from |-> 42, data |-> Hello] }

\* No second exchange.
NoOther == [pc |-> "none"]

\* sendTelegramMessage called on its own, in the runs followed to their end.
NoHookToTheEnd == [pc |-> "none", name |-> "none"]

\* What a user may do in the runs followed to their end: user 42 presses the
\* stop button or writes a text that matches or one that matches nothing;
\* the stranger presses the stop button.
LiveInputs ==
    { [kind |-> "callback_query", from |-> 42, data |-> StopS1],
      [kind |-> "message", from |-> 42, data |-> ContinueS1Fix],
      [kind |-> "message", from |-> 42, data |-> Hello],
      [kind |-> "callback_query", from |-> 99, data |-> StopS1] }

\* The updates that can arrive, by the callers of sendTelegramMessage.
UserInputs ==
    IF other # NoOther THEN PairInputs
    ELSE IF hook = NoHook THEN Inputs
    ELSE IF hook = NoHookToTheEnd THEN LiveInputs
    ELSE IF hook.name = "stop" THEN Inputs
    ELSE PermissionInputs

\* Whether a handler can throw: the handlers of both hooks only call the
\* logger, which catches its own failures.
HandlerThrows ==
    IF hook = NoHook \/ hook = NoHookToTheEnd THEN BOOLEAN ELSE {FALSE}

----------------------------------------------------------------------------
(* Pieces of sendTelegramMessage *)

\* Variant: the length check is missing.
SkipValidation(len) == TRUE

\* validateMessageLength does not throw.
ValidateMessageLength(len) == ~(len > TELEGRAM_MAX_LENGTH)

\* Variant: the configured interval is used as it is.
ConfiguredIntervalMs(cfg) == cfg.telegramPollIntervalMs

\* Math.max(config.telegramPollIntervalMs, 1000)
PollIntervalMs(cfg) == Max(cfg.telegramPollIntervalMs, MinPollIntervalMs)

\* new Set(config.telegramUserIds).has(fromId)
UserIdSet(cfg) == { cfg.telegramUserIds[i] : i \in DOMAIN cfg.telegramUserIds }
\* Variant: the sender is not checked.
AnyoneAuthorized(cfg, fromId) == TRUE

IsAuthorized(cfg, fromId) == fromId \in UserIdSet(cfg)

\* Variant: the cursor is primed at the first update returned.
FirstUpdateId(oldUpdates) ==
    IF Len(oldUpdates) > 0 THEN oldUpdates[1].update_id ELSE 0

\* The cursor after the priming getUpdates returned oldUpdates.
ClearedUpdateId(oldUpdates) ==
    IF Len(oldUpdates) > 0 THEN oldUpdates[Len(oldUpdates)].update_id ELSE 0

\* Variant: the deadline is never checked.
NeverTimedOut(cfg, elapsed) == FALSE

\* Variant: the deadline check does not test that a timeout is configured.
TimedOutUnguarded(cfg, elapsed) == elapsed >= cfg.telegramTimeoutMs

\* Variant: the deadline check uses > instead of >=.
TimedOutStrict(cfg, elapsed) ==
    cfg.telegramTimeoutMs > 0 /\ elapsed > cfg.telegramTimeoutMs

\* The deadline check at the top of the loop.
TimedOut(cfg, elapsed) ==
    cfg.telegramTimeoutMs > 0 /\ elapsed >= cfg.telegramTimeoutMs

\* Variant: the offset is the cursor itself.
PollOffsetAtCursor(last) == last

\* offset: lastUpdateId + 1
PollOffset(last) == last + 1

\* callbacks.find(...) as an index: the least index of those that satisfy
\* the predicate, 0 when there is none.
FirstIndex(matching) ==
    IF matching = {} THEN 0
    ELSE CHOOSE i \in matching : \A j \in matching : i <= j

\* The callback matched by a button press with this callback data.
FindCallbackQuery(cbs, data) ==
    FirstIndex({ i \in DOMAIN cbs :
                    cbs[i].type = "inline-button" /\ CommandMatches(cbs[i], data) })

\* The callback matched by a text message.
FindMessage(cbs, text) ==
    FirstIndex({ i \in DOMAIN cbs : CommandMatches(cbs[i], text) })

\* Variant: the cursor moves only past an update that carries a payload.
CursorSkipsEmpty(last, u) == IF u.data = NoText THEN last ELSE u.update_id

\* lastUpdateId = update.update_id, at the top of the for-loop body.
NextUpdateId(last, u) == u.update_id

\* Variant: a failed priming getUpdates aborts the exchange.
RethrowPrimingError ==
    [pc |-> "done", error |-> "PollingError", lastUpdateId |-> 0]

\* The catch around the priming getUpdates: log, lastUpdateId = 0.
CatchPrimingError == [pc |-> "check", error |-> "none", lastUpdateId |-> 0]

\* Variant: a failed getMe is logged and the send goes ahead.
IgnoreGetMeError == [pc |-> "send", error |-> "none"]

\* The catch in initializeBot: log, then throw "Invalid Telegram bot token".
CatchGetMeError == [pc |-> "done", error |-> "BackendAuthError"]

\* Variant: a failed send is logged and tried again.
RetrySend == [pc |-> "send", error |-> "none"]

\* The catch in the send loop: log, then rethrow.
CatchSendError == [pc |-> "done", error |-> "DeliveryError"]

\* Variants: the catch rethrows; the catch skips the wait.
RethrowPollError == [pc |-> "done", error |-> "PollingError"]
RetryWithoutWait == [pc |-> "poll", error |-> "none"]

\* The catch around the poll body: log, then fall through to the wait.
CatchPollError == [pc |-> "wait", error |-> "none"]

\* Variant: what is returned is the command, for a RegExp the captured group.
ReturnedCommand(u, i) ==
    IF callbacks[i].isRegExp
    THEN RegExpExec(callbacks[i].command.words, u.data, 1)[1]
    ELSE callbacks[i].command

\* return callbackData / return text
ReturnedPayload(u, i) == u.data

\* Log entries.
Ack(u, ok) == [op |-> "answerCallbackQuery", id |-> u.update_id, cb |-> 0,
               arg |-> NoText, ok |-> ok]
Invoke(u, i, arg, ok) == [op |-> "handler", id |-> u.update_id, cb |-> i,
                          arg |-> arg, ok |-> ok]

\* Variant: a button press that matches no callback is not acknowledged.
UnknownCallbackIgnored(u, ok) == <<>>

\* What a button press that matches no callback issues: the
\* acknowledgement "Unknown command".
UnknownCallbackSteps(u, ok) == << Ack(u, ok) >>

\* Variant: after a match the rest of the batch is still processed.
KeepProcessing(rest) == IF rest = <<>> THEN "done" ELSE "process"

\* return inside the for-loop: the exchange is over, whatever is left of the
\* batch.
AfterMatch(rest) == "done"

\* Variant: a button press is matched against every callback.
FindAnyCallback(cbs, data) ==
    FirstIndex({ i \in DOMAIN cbs : CommandMatches(cbs[i], data) })

\* Variant: the handler runs before the acknowledgement.
HandlerBeforeAck(u, i, threw) ==
    << Invoke(u, i, HandlerArgument(callbacks[i], u.data), ~threw),
       Ack(u, TRUE) >>

\* What a matched button press issues, in order: the acknowledgement, then
\* the handler.
MatchedCallbackSteps(u, i, threw) ==
    << Ack(u, TRUE),
       Invoke(u, i, HandlerArgument(callbacks[i], u.data), ~threw) >>

----------------------------------------------------------------------------
(* Initial state *)

Init ==
    /\ textLen \in TextLengths
    /\ callbacks \in CallbackLists
    /\ config \in Configs
    /\ pc = "start"
    /\ result = NoText
    /\ error = "none"
    /\ sendIdx = 1
    /\ startTime = 0
    /\ lastUpdateId = 0
    /\ batch = <<>>
    /\ now = 0
    /\ events = <<>>
    /\ confirmed = 0
    /\ calls = [getMe |-> 0, sendMessage |-> 0, getUpdates |-> 0,
                answerCallbackQuery |-> 0]
    /\ log = <<>>
    /\ examined = <<>>
    /\ oldIds = {}
    /\ fetches = [ok |-> 0, failed |-> 0]
    /\ busy = 0
    /\ faults = {}
    /\ hook = NoHook
    /\ other = NoOther
    /\ clearedIds = {}

Call(method) == [calls EXCEPT ![method] = @ + 1]

\* A Bot API call that takes d.
Elapse(d) ==
    /\ now + d <= MaxTime
    /\ now' = now + d
    /\ busy' = busy + d

Throw(kind) ==
    /\ pc' = "done"
    /\ error' = kind

----------------------------------------------------------------------------
(* Environment: a user presses a button or sends a text.  The program sees  *)
(* the updates only when it calls getUpdates, so an arrival is placed right *)
(* before the program starts, before the priming call or before a deadline  *)
(* check and the poll after it.                                             *)

Arrive ==
    /\ pc \in {"start", "prime", "check"}
    /\ Len(events) < MaxEvents
    /\ \E in \in UserInputs :
          events' = Append(events, [update_id |-> Len(events) + 1,
                                    kind |-> in.kind, from |-> in.from,
                                    data |-> in.data])
    /\ oldIds' = IF calls.sendMessage = 0
                 THEN oldIds \cup {Len(events) + 1} ELSE oldIds
    /\ UNCHANGED <<clearedIds, other, hook, faults, textLen, callbacks, config, pc, result, error, sendIdx,
                   startTime, lastUpdateId, batch, now, confirmed, calls, log,
                   examined, fetches, busy>>

----------------------------------------------------------------------------
(* sendTelegramMessage, one action per awaited step *)

\* validateMessageLength(textToSend) and the poll-interval floor.
Validate ==
    /\ pc = "start"
    /\ IF ValidateMessageLength(textLen)
       THEN pc' = "init" /\ error' = error
       ELSE Throw("MessageTooLong")
    /\ UNCHANGED <<clearedIds, other, hook, faults, textLen, callbacks, config, result, sendIdx, startTime,
                   lastUpdateId, batch, now, events, confirmed, calls, log,
                   examined, oldIds, fetches, busy>>

\* initializeBot: bot.api.getMe() succeeds or throws.
InitializeBot ==
    /\ pc = "init"
    /\ calls' = Call("getMe")
    /\ \E ok \in BOOLEAN :
          IF ok THEN pc' = "send" /\ error' = error /\ faults' = faults
                ELSE /\ pc' = CatchGetMeError.pc
                     /\ error' = CatchGetMeError.error
                     /\ faults' = faults \cup {"getMe"}
    /\ UNCHANGED <<clearedIds, other, hook, textLen, callbacks, config, result, sendIdx, startTime,
                   lastUpdateId, batch, now, events, confirmed, log, examined,
                   oldIds, fetches, busy>>

\* One iteration of the send loop; after the last user, startTime is taken.
SendMessage ==
    /\ pc = "send"
    /\ sendIdx <= Len(config.telegramUserIds)
    /\ calls' = Call("sendMessage")
    /\ \E ok \in BOOLEAN :
          IF ok
          THEN /\ sendIdx' = sendIdx + 1
               /\ pc' = IF sendIdx = Len(config.telegramUserIds)
                        THEN "prime" ELSE "send"
               /\ startTime' = IF sendIdx = Len(config.telegramUserIds)
                               THEN now ELSE startTime
               /\ error' = error
               /\ faults' = faults
          ELSE /\ pc' = CatchSendError.pc
               /\ error' = CatchSendError.error
               /\ faults' = faults \cup {"sendMessage"}
               /\ UNCHANGED <<sendIdx, startTime>>
    /\ UNCHANGED <<clearedIds, other, hook, textLen, callbacks, config, result, lastUpdateId, batch,
                   now, events, confirmed, log, examined, oldIds, fetches, busy>>

\* Clear any pending updates: getUpdates({timeout: 0}), without offset.
ClearPending ==
    /\ pc = "prime"
    /\ calls' = Call("getUpdates")
    /\ \E d \in Delays : Elapse(d)
    /\ \/ /\ lastUpdateId' = ClearedUpdateId(PendingUpdates)
          /\ clearedIds' = UpdateIds(PendingUpdates)
          /\ pc' = "check"
          /\ error' = error
          /\ faults' = faults
       \/ /\ lastUpdateId' = CatchPrimingError.lastUpdateId
          /\ clearedIds' = clearedIds
          /\ pc' = CatchPrimingError.pc
          /\ error' = CatchPrimingError.error
          /\ faults' = faults \cup {"getUpdates"}
    /\ UNCHANGED <<other, hook, textLen, callbacks, config, result, sendIdx,
                   startTime, batch, events, confirmed, log, examined, oldIds,
                   fetches>>

\* The deadline check at the top of an iteration.
CheckTimeout ==
    /\ pc = "check"
    /\ IF TimedOut(config, now - startTime)
       THEN Throw("TimeoutError") /\ busy' = busy
       ELSE pc' = "poll" /\ error' = error /\ busy' = 0
    /\ UNCHANGED <<clearedIds, other, hook, faults, textLen, callbacks, config, result, sendIdx, startTime,
                   lastUpdateId, batch, now, events, confirmed, calls, log,
                   examined, oldIds, fetches>>

\* getUpdates({offset: lastUpdateId + 1, timeout: 0}): the batch, or a throw
\* that the catch absorbs.
GetUpdates ==
    /\ pc = "poll"
    /\ calls' = Call("getUpdates")
    /\ \E d \in Delays : Elapse(d)
    /\ \E ok \in BOOLEAN :
          IF ok
          THEN LET updates == UpdatesFrom(PollOffset(lastUpdateId)) IN
               /\ confirmed' = Max(confirmed, PollOffset(lastUpdateId))
               /\ batch' = updates
               /\ pc' = IF updates = <<>> THEN "wait" ELSE "process"
               /\ error' = error
               /\ fetches' = [fetches EXCEPT !.ok = @ + 1]
          ELSE /\ pc' = CatchPollError.pc
               /\ error' = CatchPollError.error
               /\ fetches' = [fetches EXCEPT !.failed = @ + 1]
               /\ UNCHANGED <<confirmed, batch>>
    /\ UNCHANGED <<clearedIds, other, hook, faults, textLen, callbacks, config, result, sendIdx, startTime,
                   lastUpdateId, events, log, examined, oldIds>>

\* One iteration of the for-loop over the batch: the cursor moves to the
\* update, then the update is a button press or a text.  Every throw inside
\* the try (a failed acknowledgement, a handler that throws) lands in the
\* catch, which abandons the rest of the batch.
ProcessUpdate ==
    /\ pc = "process"
    /\ batch # <<>>
    /\ LET u == Head(batch)
           Continue ==
               /\ batch' = Tail(batch)
               /\ pc' = IF Tail(batch) = <<>> THEN "wait" ELSE "process"
               /\ UNCHANGED <<result, error>>
           Caught ==
               /\ batch' = <<>>
               /\ pc' = CatchPollError.pc
               /\ error' = CatchPollError.error
               /\ result' = result
           Return(value) ==
               /\ batch' = Tail(batch)
               /\ pc' = AfterMatch(Tail(batch))
               /\ result' = value
               /\ error' = error
       IN
       /\ lastUpdateId' = NextUpdateId(lastUpdateId, u)
       /\ examined' = Append(examined, u.update_id)
       /\ UNCHANGED <<now, busy>>
       /\ IF u.kind = "callback_query"
          THEN IF ~IsAuthorized(config, u.from) \/ u.data = NoText
               THEN Continue /\ UNCHANGED <<log, calls>>
               ELSE LET i == FindCallbackQuery(callbacks, u.data) IN
                    /\ calls' = Call("answerCallbackQuery")
                    /\ IF i # 0
                       THEN \/ /\ log' = Append(log, Ack(u, FALSE))
                               /\ Caught
                            \/ \E threw \in HandlerThrows :
                               /\ log' = log \o MatchedCallbackSteps(u, i, threw)
                               /\ IF threw THEN Caught ELSE Return(ReturnedPayload(u, i))
                       ELSE \E ok \in BOOLEAN :
                               /\ log' = log \o UnknownCallbackSteps(u, ok)
                               /\ IF ok THEN Continue ELSE Caught
          ELSE IF u.data = NoText \/ ~IsAuthorized(config, u.from)
               THEN Continue /\ UNCHANGED <<log, calls>>
               ELSE LET i == FindMessage(callbacks, u.data) IN
                    /\ calls' = calls
                    /\ IF i # 0
                       THEN \E threw \in HandlerThrows :
                               /\ log' = Append(log,
                                      Invoke(u, i, HandlerArgument(callbacks[i], u.data),
                                             ~threw))
                               /\ IF threw THEN Caught ELSE Return(ReturnedPayload(u, i))
                       ELSE Continue /\ log' = log
    /\ UNCHANGED <<clearedIds, other, hook, faults, textLen, callbacks, config, sendIdx, startTime, events,
                   confirmed, oldIds, fetches>>

\* await new Promise((resolve) => setTimeout(resolve, pollIntervalMs))
Wait ==
    /\ pc = "wait"
    /\ now + PollIntervalMs(config) <= MaxTime
    /\ now' = now + PollIntervalMs(config)
    /\ busy' = busy
    /\ pc' = "check"
    /\ UNCHANGED <<clearedIds, other, hook, faults, textLen, callbacks, config, result, error, sendIdx,
                   startTime, lastUpdateId, batch, events, confirmed, calls,
                   log, examined, oldIds, fetches>>

Next ==
    \/ Arrive
    \/ Validate
    \/ InitializeBot
    \/ SendMessage
    \/ ClearPending
    \/ CheckTimeout
    \/ GetUpdates
    \/ ProcessUpdate
    \/ Wait

Spec == Init /\ [][Next]_vars

----------------------------------------------------------------------------
(* sendTelegramMessage with a deadline, running to its end: each awaited    *)
(* Bot API call, handler and timer completes, so a step of the function     *)
(* that can be taken is taken.  The users are under no such obligation.     *)

\* (telegramTimeoutMs, telegramPollIntervalMs) of the runs with a deadline:
\* the first ends at its second deadline check at the latest, the second
\* leaves room for two iterations of the loop.  Both end before MaxTime.
LiveTimings == { <<500, 200>>, <<1500, 200>> }

LiveInit ==
    /\ textLen \in TextLengths
    /\ callbacks = StopHookCallbacks
    /\ config \in { [telegramUserIds |-> TelegramUserIds,
                      telegramTimeoutMs |-> t[1],
                      telegramPollIntervalMs |-> t[2]] : t \in LiveTimings }
    /\ pc = "start"
    /\ result = NoText
    /\ error = "none"
    /\ sendIdx = 1
    /\ startTime = 0
    /\ lastUpdateId = 0
    /\ batch = <<>>
    /\ now = 0
    /\ events = <<>>
    /\ confirmed = 0
    /\ calls = [getMe |-> 0, sendMessage |-> 0, getUpdates |-> 0,
                answerCallbackQuery |-> 0]
    /\ log = <<>>
    /\ examined = <<>>
    /\ oldIds = {}
    /\ fetches = [ok |-> 0, failed |-> 0]
    /\ busy = 0
    /\ faults = {}
    /\ hook = NoHookToTheEnd
    /\ other = NoOther
    /\ clearedIds = {}

\* A step of sendTelegramMessage.
Run ==
    \/ Validate
    \/ InitializeBot
    \/ SendMessage
    \/ ClearPending
    \/ CheckTimeout
    \/ GetUpdates
    \/ ProcessUpdate
    \/ Wait

LiveSpec == LiveInit /\ [][Next]_vars /\ WF_vars(Run)

----------------------------------------------------------------------------
(* The permission hook (PermissionRequest), which calls sendTelegramMessage *)

\* (permissionHookTimeoutMs) of the runs explored.
HookTimeouts == {500}

\* The loaded configuration: the user ids may be missing; telegramTimeoutMs
\* is the stop hook's and is replaced for the permission request.
HookConfigs ==
    { [telegramUserIds |-> ids,
       telegramTimeoutMs |-> 0,
       telegramPollIntervalMs |-> 200] : ids \in {<<>>, TelegramUserIds} }

\* Variant: the auto-approve list is ignored.
NeverAutoApproved(h) == FALSE

\* config.permissionHookToolsAutoApproved.includes(data.tool_name)
IsAutoApproved(h) == h.tool_name \in h.permissionHookToolsAutoApproved

\* Variant: a timeout always denies.
TimeoutAlwaysDenies(h) == "deny"

\* The decision of the catch on the timeout error.
TimeoutDecision(h) ==
    IF h.permissionHookAllowOnTimeout THEN "allow" ELSE "deny"

\* { ...config, telegramTimeoutMs: config.permissionHookTimeoutMs }
PermissionConfig(cfg, h) ==
    [cfg EXCEPT !.telegramTimeoutMs = h.permissionHookTimeoutMs]

\* Variant: an error that is not the timeout exits with code 0.
OtherErrorExitsZero == [output |-> <<>>, exitCode |-> 0]

\* The catch on an error that is not the timeout: process.exit(2).
CatchOtherError == [output |-> <<>>, exitCode |-> 2]

\* Variant: every response of the exchange counts as an approval.
AnyResponseApproves(raw) == TRUE

\* rawCallbackData.match(/^\/approve\s+(s1)\s+(.+)$/) and the same for /deny
ApproveMatch(raw) == RegExpExec(<<"/approve", "s1">>, raw, 1) # <<>>
DenyMatch(raw) == RegExpExec(<<"/deny", "s1">>, raw, 1) # <<>>

\* outputDecision(behavior) for each decision of out, then process.exit(code).
Exit(code, out) ==
    hook' = [hook EXCEPT !.pc = "exit", !.exitCode = code,
                         !.output = hook.output \o out]

HookInit ==
    /\ hook \in [name : {"permission"}, pc : {"run"}, parses : BOOLEAN,
                 tool_name : {"Read", "Bash"},
                 permissionHookEnabled : BOOLEAN,
                 permissionHookToolsAutoApproved : {{}, {"Read"}},
                 telegramEnabled : BOOLEAN,
                 telegramBotToken : {"", "token"},
                 permissionHookTimeoutMs : HookTimeouts,
                 permissionHookAllowOnTimeout : BOOLEAN,
                 output : {<<>>}, exitCode : {0 - 1}]
    /\ textLen \in TextLengths
    /\ callbacks = <<>>
    /\ config \in HookConfigs
    /\ pc = "idle"
    /\ result = NoText
    /\ error = "none"
    /\ sendIdx = 1
    /\ startTime = 0
    /\ lastUpdateId = 0
    /\ batch = <<>>
    /\ now = 0
    /\ events = <<>>
    /\ confirmed = 0
    /\ calls = [getMe |-> 0, sendMessage |-> 0, getUpdates |-> 0,
                answerCallbackQuery |-> 0]
    /\ log = <<>>
    /\ examined = <<>>
    /\ oldIds = {}
    /\ fetches = [ok |-> 0, failed |-> 0]
    /\ busy = 0
    /\ faults = {}
    /\ other = NoOther
    /\ clearedIds = {}

\* From JSON.parse(input) to the call of sendTelegramMessage: the checks in
\* the order of the code, each ending the process or falling through.
HookStart ==
    /\ pc = "idle"
    /\ hook.pc = "run"
    /\ IF ~hook.parses
       THEN Exit(2, <<>>) /\ UNCHANGED <<pc, callbacks, config>>
       ELSE IF ~hook.permissionHookEnabled
       THEN Exit(2, <<>>) /\ UNCHANGED <<pc, callbacks, config>>
       ELSE IF IsAutoApproved(hook)
       THEN Exit(0, <<"allow">>) /\ UNCHANGED <<pc, callbacks, config>>
       ELSE IF \/ ~hook.telegramEnabled
               \/ hook.telegramBotToken = ""
               \/ Len(config.telegramUserIds) = 0
               \/ textLen > TELEGRAM_MAX_LENGTH
       THEN Exit(2, <<>>) /\ UNCHANGED <<pc, callbacks, config>>
       ELSE /\ hook' = [hook EXCEPT !.pc = "call"]
            /\ callbacks' = PermissionCallbacks
            /\ config' = PermissionConfig(config, hook)
            /\ pc' = "start"
    /\ UNCHANGED <<clearedIds, other, faults, textLen, result, error, sendIdx, startTime,
                   lastUpdateId, batch, now, events, confirmed, calls, log,
                   examined, oldIds, fetches, busy>>

\* After sendTelegramMessage returned or threw: the response is parsed, or
\* the catch maps the timeout error to the configured decision.
HookFinish ==
    /\ hook.pc = "call"
    /\ pc = "done"
    /\ IF error = "none"
       THEN IF ApproveMatch(result) THEN Exit(0, <<"allow">>)
            ELSE IF DenyMatch(result) THEN Exit(0, <<"deny">>)
            ELSE Exit(2, <<>>)
       ELSE IF error = "TimeoutError"
       THEN Exit(0, <<TimeoutDecision(hook)>>)
       ELSE Exit(CatchOtherError.exitCode, CatchOtherError.output)
    /\ UNCHANGED <<clearedIds, other, faults, textLen, callbacks, config, pc, result, error,
                   sendIdx, startTime, lastUpdateId, batch, now, events,
                   confirmed, calls, log, examined, oldIds, fetches, busy>>

HookNext ==
    \/ HookStart
    \/ HookFinish
    \/ Arrive
    \/ Validate
    \/ InitializeBot
    \/ SendMessage
    \/ ClearPending
    \/ CheckTimeout
    \/ GetUpdates
    \/ ProcessUpdate
    \/ Wait

HookSpec == HookInit /\ [][HookNext]_vars

----------------------------------------------------------------------------
(* The stop hook (Stop) of session s1, which calls sendTelegramMessage *)

\* The loaded configuration of the stop hook: the user ids may be missing.
StopConfigs ==
    { [telegramUserIds |-> ids,
       telegramTimeoutMs |-> 500,
       telegramPollIntervalMs |-> 200] : ids \in {<<>>, TelegramUserIds} }

\* Variant: the reason is the whole response.
BlockMatchWholeText(raw) == <<raw>>

\* rawCallbackData.match(/^\/continue\s+s1\s+(.+)$/): <<>> when it does not
\* match, otherwise <<group 1>>.
BlockMatch(raw) == RegExpExec(<<"/continue", "s1">>, raw, 1)

\* { decision: "block", reason } as printed.
BlockResponse(reason) == [decision |-> "block", reason |-> reason]

\* { decision: undefined, reason: "timeout waiting for response" } as
\* printed by JSON.stringify, which leaves an undefined property out.
TimeoutResponse == [reason |-> <<"timeout waiting for response">>]

StopInit ==
    /\ hook \in [name : {"stop"}, pc : {"run"}, parses : BOOLEAN,
                 telegramEnabled : BOOLEAN,
                 telegramBotToken : {"", "token"},
                 output : {<<>>}, exitCode : {0 - 1}]
    /\ textLen \in TextLengths
    /\ callbacks = <<>>
    /\ config \in StopConfigs
    /\ pc = "idle"
    /\ result = NoText
    /\ error = "none"
    /\ sendIdx = 1
    /\ startTime = 0
    /\ lastUpdateId = 0
    /\ batch = <<>>
    /\ now = 0
    /\ events = <<>>
    /\ confirmed = 0
    /\ calls = [getMe |-> 0, sendMessage |-> 0, getUpdates |-> 0,
                answerCallbackQuery |-> 0]
    /\ log = <<>>
    /\ examined = <<>>
    /\ oldIds = {}
    /\ fetches = [ok |-> 0, failed |-> 0]
    /\ busy = 0
    /\ faults = {}
    /\ other = NoOther
    /\ clearedIds = {}

\* From JSON.parse(input) to the call of sendTelegramMessage.
StopStart ==
    /\ pc = "idle"
    /\ hook.pc = "run"
    /\ IF ~hook.parses
       THEN Exit(1, <<>>) /\ UNCHANGED <<pc, callbacks>>
       ELSE IF \/ ~hook.telegramEnabled
               \/ hook.telegramBotToken = ""
               \/ Len(config.telegramUserIds) = 0
       THEN Exit(0, <<>>) /\ UNCHANGED <<pc, callbacks>>
       ELSE /\ hook' = [hook EXCEPT !.pc = "call"]
            /\ callbacks' = StopHookCallbacks
            /\ pc' = "start"
    /\ UNCHANGED <<clearedIds, other, faults, textLen, config, result, error, sendIdx,
                   startTime, lastUpdateId, batch, now, events, confirmed,
                   calls, log, examined, oldIds, fetches, busy>>

\* After sendTelegramMessage returned or threw.
StopFinish ==
    /\ hook.pc = "call"
    /\ pc = "done"
    /\ IF error = "none"
       THEN IF result = StopS1 THEN Exit(0, <<>>)
            ELSE IF BlockMatch(result) # <<>>
            THEN Exit(0, <<BlockResponse(BlockMatch(result)[1])>>)
            ELSE Exit(0, <<>>)
       ELSE IF error = "TimeoutError"
       THEN Exit(0, <<TimeoutResponse>>)
       ELSE Exit(1, <<>>)
    /\ UNCHANGED <<clearedIds, other, faults, textLen, callbacks, config, pc, result, error,
                   sendIdx, startTime, lastUpdateId, batch, now, events,
                   confirmed, calls, log, examined, oldIds, fetches, busy>>

StopNext ==
    \/ StopStart
    \/ StopFinish
    \/ Arrive
    \/ Validate
    \/ InitializeBot
    \/ SendMessage
    \/ ClearPending
    \/ CheckTimeout
    \/ GetUpdates
    \/ ProcessUpdate
    \/ Wait

StopSpec == StopInit /\ [][StopNext]_vars

----------------------------------------------------------------------------
(* The stop hook's formatter: formatMessage and truncateMessage, by the     *)
(* lengths of the strings (String.length, in UTF-16 code units).  A message *)
(* is refs occurrences of "$&" followed by plain characters that hold no    *)
(* "$" and no placeholder; String.replace with a string pattern reads "$&"  *)
(* in the replacement as the matched substring, here the placeholder.       *)

MAX_USER_MESSAGE_LENGTH == 1000
MAX_ASSISTANT_MESSAGE_LENGTH == 3500

Min(a, b) == IF a <= b THEN a ELSE b

Text(refs, plain) == [refs |-> refs, plain |-> plain]
Length(m) == 2 * m.refs + m.plain

\* null, or the empty string.
NoMessage == Text(0, 0)
\* "(no message)"
NoMessageText == Text(0, 12)
\* "..."
Ellipsis == Text(0, 3)
\* "__USER_MESSAGE__" and "__ASSISTANT_MESSAGE__"
UserPlaceholderLength == 16
AssistantPlaceholderLength == 21
\* new Date().toISOString()
TimestampLength == 24

\* message.slice(0, end): a negative end counts from the end of the string.
\* A "$&" cut in two leaves its "$", a plain character.
Slice(m, end) ==
    LET e == IF end < 0 THEN Max(Length(m) + end, 0) ELSE Min(end, Length(m))
    IN  IF e >= 2 * m.refs
        THEN Text(m.refs, e - 2 * m.refs)
        ELSE Text(e \div 2, e % 2)

\* a + b, b plain.
Concat(a, b) == Text(a.refs, a.plain + b.plain)

truncateMessage(message, maxLength) ==
    IF Length(message) <= maxLength THEN message
    ELSE Concat(Slice(message, maxLength - 3), Ellipsis)

\* The length of what template.replace(placeholder, m) puts in the place of
\* the placeholder.
ReplacementLength(m, placeholderLength) ==
    m.refs * placeholderLength + m.plain

\* template.length: the fixed text, the session id twice, the working
\* directory, the timestamp and the two placeholders.
TemplateLength(sessionIdLength, cwdLength) ==
    66 + sessionIdLength + cwdLength + TimestampLength
    + UserPlaceholderLength + 23 + AssistantPlaceholderLength
    + 83 + sessionIdLength

\* Math.floor(x * 0.4) and Math.floor(x * 0.6)
FloorOfShare(x, tenths) == (x * tenths) \div 10

\* formatMessage(data), with the values it computes on the way.
formatMessage(data) ==
    LET userMessage ==
            IF data.lastUserMessage = NoMessage THEN NoMessageText
            ELSE data.lastUserMessage
        assistantMessage ==
            IF data.lastAssistantMessage = NoMessage THEN NoMessageText
            ELSE data.lastAssistantMessage
        templateLength == TemplateLength(data.sessionIdLength, data.cwdLength)
        availableSpace == TELEGRAM_MAX_LENGTH - templateLength
        maxUserLen ==
            Min(MAX_USER_MESSAGE_LENGTH, FloorOfShare(availableSpace, 4))
        maxAssistantLen ==
            Min(MAX_ASSISTANT_MESSAGE_LENGTH, FloorOfShare(availableSpace, 6))
        truncatedUserMessage == truncateMessage(userMessage, maxUserLen)
        truncatedAssistantMessage ==
            truncateMessage(assistantMessage, maxAssistantLen)
    IN  [availableSpace |-> availableSpace,
         maxUserLen |-> maxUserLen,
         maxAssistantLen |-> maxAssistantLen,
         truncatedUserMessage |-> truncatedUserMessage,
         truncatedAssistantMessage |-> truncatedAssistantMessage,
         length |-> templateLength
                    - UserPlaceholderLength
                    + ReplacementLength(truncatedUserMessage,
                                        UserPlaceholderLength)
                    - AssistantPlaceholderLength
                    + ReplacementLength(truncatedAssistantMessage,
                                        AssistantPlaceholderLength)]

\* The session ids, working directories and messages explored: a short id
\* and a UUID; a short path, one that leaves 5 characters of room and one
\* that leaves none; no message, short ones, ones at and above the maxima,
\* and ones made of "$&".
SessionIdLengths == {2, 36}
CwdLengths == {1, 3786, 4000}
UserMessages ==
    {NoMessage, Text(0, 1), Text(0, 5), Text(0, 1000), Text(0, 1001),
     Text(0, 5000), Text(500, 0)}
AssistantMessages ==
    {NoMessage, Text(0, 1), Text(0, 2274), Text(0, 2275), Text(0, 3501),
     Text(0, 6000), Text(100, 0)}

NoFormat == [length |-> 0]

FormatInit ==
    /\ hook \in [name : {"stop"}, pc : {"run"},
                 sessionIdLength : SessionIdLengths,
                 cwdLength : CwdLengths,
                 lastUserMessage : UserMessages,
                 lastAssistantMessage : AssistantMessages,
                 formatted : {NoFormat}]
    /\ textLen = 0
    /\ callbacks = <<>>
    /\ config \in { c \in StopConfigs : c.telegramUserIds # <<>> }
    /\ pc = "idle"
    /\ result = NoText
    /\ error = "none"
    /\ sendIdx = 1
    /\ startTime = 0
    /\ lastUpdateId = 0
    /\ batch = <<>>
    /\ now = 0
    /\ events = <<>>
    /\ confirmed = 0
    /\ calls = [getMe |-> 0, sendMessage |-> 0, getUpdates |-> 0,
                answerCallbackQuery |-> 0]
    /\ log = <<>>
    /\ examined = <<>>
    /\ oldIds = {}
    /\ fetches = [ok |-> 0, failed |-> 0]
    /\ busy = 0
    /\ faults = {}
    /\ other = NoOther
    /\ clearedIds = {}

\* const textToSend = formatMessage(messageData), handed to
\* sendTelegramMessage.
FormatMessage ==
    /\ pc = "idle"
    /\ hook.pc = "run"
    /\ hook' = [hook EXCEPT !.pc = "call", !.formatted = formatMessage(hook)]
    /\ textLen' = formatMessage(hook).length
    /\ callbacks' = StopHookCallbacks
    /\ pc' = "start"
    /\ UNCHANGED <<clearedIds, other, faults, config, result, error, sendIdx,
                   startTime, lastUpdateId, batch, now, events, confirmed,
                   calls, log, examined, oldIds, fetches, busy>>

\* The formatter, then the length validation of sendTelegramMessage.
FormatNext ==
    \/ FormatMessage
    \/ Validate

FormatSpec == FormatInit /\ [][FormatNext]_vars

----------------------------------------------------------------------------
(* Two exchanges on the same bot: this one, of session s1, and a second     *)
(* sendTelegramMessage in another process, of session s2.  The two share    *)
(* nothing but the bot's update queue (events, confirmed).  The second      *)
(* exchange has no deadline, its Bot API calls and handlers succeed, and    *)
(* its steps interleave freely with the steps of this one: the processes    *)
(* start at unrelated times with intervals configured independently.       *)

\* (telegramTimeoutMs, telegramPollIntervalMs) of this exchange in the pair.
PairTimings == { <<1000, 1500>> }

PairInit ==
    /\ textLen = TELEGRAM_MAX_LENGTH
    /\ callbacks = StopHookCallbacks
    /\ config \in { c \in Configs :
                      <<c.telegramTimeoutMs, c.telegramPollIntervalMs>> \in PairTimings }
    /\ pc = "start"
    /\ result = NoText
    /\ error = "none"
    /\ sendIdx = 1
    /\ startTime = 0
    /\ lastUpdateId = 0
    /\ batch = <<>>
    /\ now = 0
    /\ events = <<>>
    /\ confirmed = 0
    /\ calls = [getMe |-> 0, sendMessage |-> 0, getUpdates |-> 0,
                answerCallbackQuery |-> 0]
    /\ log = <<>>
    /\ examined = <<>>
    /\ oldIds = {}
    /\ fetches = [ok |-> 0, failed |-> 0]
    /\ busy = 0
    /\ faults = {}
    /\ hook = NoHook
    /\ other = [pc |-> "idle", lastUpdateId |-> 0, batch |-> <<>>,
                result |-> NoText]
    /\ clearedIds = {}

\* What a step of the second exchange leaves alone: everything of this
\* exchange and the updates themselves.
OtherFrame ==
    UNCHANGED <<clearedIds, hook, faults, textLen, callbacks, config, pc, result, error,
                sendIdx, startTime, lastUpdateId, batch, now, events, calls,
                log, examined, oldIds, fetches, busy>>

\* The second exchange validates, initializes the bot and sends.
OtherSend ==
    /\ other.pc = "idle"
    /\ other' = [other EXCEPT !.pc = "prime"]
    /\ confirmed' = confirmed
    /\ OtherFrame

\* Its priming getUpdates({timeout: 0}).
OtherClearPending ==
    /\ other.pc = "prime"
    /\ other' = [other EXCEPT !.pc = "poll",
                              !.lastUpdateId = ClearedUpdateId(PendingUpdates)]
    /\ confirmed' = confirmed
    /\ OtherFrame

\* Its getUpdates({offset: lastUpdateId + 1, timeout: 0}).
OtherGetUpdates ==
    /\ other.pc = "poll"
    /\ LET updates == UpdatesFrom(PollOffset(other.lastUpdateId)) IN
       /\ confirmed' = Max(confirmed, PollOffset(other.lastUpdateId))
       /\ other' = [other EXCEPT !.batch = updates,
                        !.pc = IF updates = <<>> THEN "wait" ELSE "process"]
    /\ OtherFrame

\* One iteration of its for-loop over the batch.
OtherProcessUpdate ==
    /\ other.pc = "process"
    /\ other.batch # <<>>
    /\ LET u == Head(other.batch)
           i == IF u.data = NoText \/ ~IsAuthorized(config, u.from) THEN 0
                ELSE IF u.kind = "callback_query"
                THEN FindCallbackQuery(OtherCallbacks, u.data)
                ELSE FindMessage(OtherCallbacks, u.data)
       IN  other' = IF i # 0
                    THEN [other EXCEPT !.lastUpdateId = u.update_id,
                                       !.batch = Tail(other.batch),
                                       !.pc = "done",
                                       !.result = ReturnedPayload(u, i)]
                    ELSE [other EXCEPT !.lastUpdateId = u.update_id,
                                       !.batch = Tail(other.batch),
                                       !.pc = IF Tail(other.batch) = <<>>
                                              THEN "wait" ELSE "process"]
    /\ confirmed' = confirmed
    /\ OtherFrame

\* Its wait between two polls.
OtherWait ==
    /\ other.pc = "wait"
    /\ other' = [other EXCEPT !.pc = "poll"]
    /\ confirmed' = confirmed
    /\ OtherFrame

PairNext ==
    \/ Arrive
    \/ Validate
    \/ InitializeBot
    \/ SendMessage
    \/ ClearPending
    \/ CheckTimeout
    \/ GetUpdates
    \/ ProcessUpdate
    \/ Wait
    \/ OtherSend
    \/ OtherClearPending
    \/ OtherGetUpdates
    \/ OtherProcessUpdate
    \/ OtherWait

PairSpec == PairInit /\ [][PairNext]_vars

----------------------------------------------------------------------------
TypeOK ==
    /\ pc \in {"idle", "start", "init", "send", "prime", "check", "poll", "process",
               "wait", "done"}
    /\ error \in {"none", "MessageTooLong", "BackendAuthError", "DeliveryError",
                  "TimeoutError", "PollingError"}
    /\ result \in Payloads \cup PermissionPayloads
    /\ other.pc \in {"none", "idle", "prime", "poll", "process", "wait", "done"}
    /\ lastUpdateId \in 0..(MaxEvents + 1)
    /\ now \in 0..(MaxTime + 1)

----------------------------------------------------------------------------
(* Vocabulary of the properties *)

Done == pc = "done"
Returned == pc = "done" /\ error = "none"
Elapsed == now - startTime
NoCalls == calls = [getMe |-> 0, sendMessage |-> 0, getUpdates |-> 0,
                    answerCallbackQuery |-> 0]

\* The waiting phase has begun: the priming getUpdates has been issued.
Waiting == calls.getUpdates >= 1

FromConfiguredUser(e) ==
    \E i \in DOMAIN config.telegramUserIds : config.telegramUserIds[i] = e.from

\* e satisfies the pattern of callbacks[i], as the kind of e allows.
Satisfies(e, i) ==
    /\ e.data # NoText
    /\ CommandMatches(callbacks[i], e.data)
    /\ e.kind = "callback_query" => callbacks[i].type = "inline-button"

IsMatchingEvent(e) ==
    FromConfiguredUser(e) /\ \E i \in DOMAIN callbacks : Satisfies(e, i)

HandlerEntries == { k \in DOMAIN log : log[k].op = "handler" }
AckEntries == { k \in DOMAIN log : log[k].op = "answerCallbackQuery" }

----------------------------------------------------------------------------
(* C1: a text longer than 4096 characters makes sendTelegramMessage fail
   with the message-too-long error, and no Bot API call is issued (getMe,
   sendMessage, getUpdates, answerCallbackQuery) and no handler invoked. *)
C1_TooLongFailsWithoutCalls ==
    textLen > 4096 =>
        /\ NoCalls
        /\ log = <<>>
        /\ result = NoText
        /\ pc \in {"start", "done"}
        /\ Done => error = "MessageTooLong"

C1_Witness == textLen > 4096 /\ Done /\ error = "MessageTooLong"

(* C2: an update whose sender is not a configured user never triggers a
   match: no handler is invoked for it, no acknowledgement is sent for it,
   the exchange does not return on it, and when only such updates arrive a
   finished exchange ended with the timeout error. *)
C2_StrangersNeverMatch ==
    /\ \A k \in DOMAIN log : FromConfiguredUser(events[log[k].id])
    /\ Returned => FromConfiguredUser(events[lastUpdateId])
    /\ (Done /\ Waiting /\ \A n \in DOMAIN events : ~FromConfiguredUser(events[n]))
          => error = "TimeoutError"

C2_Witness ==
    /\ Done /\ error = "TimeoutError"
    /\ \E k \in DOMAIN examined :
          LET e == events[examined[k]] IN
          ~FromConfiguredUser(e) /\ \E i \in DOMAIN callbacks : Satisfies(e, i)
    /\ \A n \in DOMAIN events : ~FromConfiguredUser(events[n])

(* C3: an update that was already pending at the Bot API before this
   exchange's message was sent never invokes a handler and never resolves
   the exchange, also when the priming getUpdates fails. *)
C3_OldUpdatesNeverMatch ==
    /\ \A k \in HandlerEntries : log[k].id \notin oldIds
    /\ Returned => lastUpdateId \notin oldIds

(* C4 as stated: with a deadline D > 0 and no matching event, the timeout
   error is raised after an elapsed time in [D, D + pollIntervalMs), where
   pollIntervalMs is the configured poll interval. *)
C4_TimeoutWithinConfiguredInterval ==
    (Done /\ error = "TimeoutError"
          /\ \A n \in DOMAIN events : ~IsMatchingEvent(events[n]))
    => /\ config.telegramTimeoutMs <= Elapsed
       /\ Elapsed < config.telegramTimeoutMs + config.telegramPollIntervalMs

(* C4 as amended: with a deadline D > 0 and no matching event, the timeout
   error is raised after an elapsed time of at least D and less than
   D + max(pollIntervalMs, 1000) + the time the Bot API calls took since the
   previous deadline check (since the start of waiting at the first check). *)
C4_TimeoutWithinFlooredInterval ==
    (Done /\ error = "TimeoutError"
          /\ \A n \in DOMAIN events : ~IsMatchingEvent(events[n]))
    => /\ config.telegramTimeoutMs > 0
       /\ config.telegramTimeoutMs <= Elapsed
       /\ Elapsed < config.telegramTimeoutMs
                      + Max(config.telegramPollIntervalMs, 1000) + busy

C4_Witness ==
    /\ Done /\ error = "TimeoutError"
    /\ \A n \in DOMAIN events : ~IsMatchingEvent(events[n])
    /\ config.telegramPollIntervalMs < 1000
    /\ fetches.ok >= 1
    /\ Elapsed >= config.telegramTimeoutMs + config.telegramPollIntervalMs

(* C5: whenever a handler has been invoked for a button press, the
   answerCallbackQuery for that press was issued before it, and it is
   issued at most once for any press; a return on a button press comes
   after its acknowledgement. *)
C5_AckBeforeHandler ==
    /\ \A k \in HandlerEntries :
          events[log[k].id].kind = "callback_query" =>
              \E j \in AckEntries : j < k /\ log[j].id = log[k].id /\ log[j].ok
    /\ \A j1, j2 \in AckEntries : log[j1].id = log[j2].id => j1 = j2
    /\ (Returned /\ events[lastUpdateId].kind = "callback_query") =>
          \E j \in AckEntries : log[j].id = lastUpdateId

C5_Witness ==
    /\ Returned
    /\ \E k \in HandlerEntries : events[log[k].id].kind = "callback_query"

(* C6: when the handler of a matched, acknowledged button press throws, the
   exchange still ends with that press's raw payload, and the
   acknowledgement is not issued again. *)
C6_HandlerFailureStillReturnsPayload ==
    \A k \in HandlerEntries :
        (events[log[k].id].kind = "callback_query" /\ ~log[k].ok) =>
            /\ Returned
            /\ result = events[log[k].id].data
            /\ \A j1, j2 \in AckEntries : log[j1].id = log[j2].id => j1 = j2

\* The text updates of configured users that the for-loop has visited.
ExaminedTexts ==
    { examined[k] : k \in { n \in DOMAIN examined :
          /\ events[examined[n]].kind = "message"
          /\ events[examined[n]].data # NoText
          /\ FromConfiguredUser(events[examined[n]]) } }

\* callbacks[a] is the first callback that the text satisfies, and a later
\* callback b satisfies it too.
OverlapOn(text, a, b) ==
    /\ a < b
    /\ CommandMatches(callbacks[a], text)
    /\ CommandMatches(callbacks[b], text)
    /\ \A c \in 1..(a - 1) : ~CommandMatches(callbacks[c], text)

(* C7: first command wins.  When a text from a configured user satisfies
   the patterns of callbacks A and B, A before B, then A's handler is
   invoked, B's is not, and the exchange resolves on A's match (it returns
   that text); the overlap raises no error. *)
C7_FirstCommandWins ==
    \A id \in ExaminedTexts : \A a, b \in DOMAIN callbacks :
        OverlapOn(events[id].data, a, b) =>
            /\ \E k \in HandlerEntries : log[k].id = id /\ log[k].cb = a
            /\ \A k \in HandlerEntries : log[k].id = id => log[k].cb # b
            /\ Returned /\ result = events[id].data /\ lastUpdateId = id

(* The part of C7 that the code does keep: the handler invoked for such a
   text is A's and only A's, and a return on it returns the text. *)
C7_FirstCommandInvoked ==
    \A id \in ExaminedTexts : \A a, b \in DOMAIN callbacks :
        OverlapOn(events[id].data, a, b) =>
            /\ \E k \in HandlerEntries : log[k].id = id /\ log[k].cb = a
            /\ \A k \in HandlerEntries : log[k].id = id => log[k].cb = a
            /\ (Returned /\ lastUpdateId = id) => result = events[id].data

(* C8: once the cursor has passed an update_id that update is never
   reconsidered: although the Bot API still holds the updates of one poll
   at the next, the for-loop visits update_ids in strictly increasing order,
   so every update is processed at most once, every handler is invoked at
   most once per update, and at most one match is resolved. *)
C8_CursorNeverReconsiders ==
    /\ \A m, n \in DOMAIN examined : m < n => examined[m] < examined[n]
    /\ \A n \in DOMAIN examined : examined[n] <= lastUpdateId
    /\ \A k1, k2 \in HandlerEntries : log[k1].id = log[k2].id => k1 = k2
    /\ Cardinality({ k \in HandlerEntries : log[k].ok }) <= 1

\* An update was processed, and a later poll succeeded while the Bot API
\* still held it (the poll is what confirmed it).
C8_Witness ==
    /\ examined # <<>>
    /\ fetches.ok >= 2
    /\ confirmed = lastUpdateId + 1
    /\ lastUpdateId = examined[Len(examined)]
    /\ HandlerEntries # {}

(* C9: once the waiting loop has been entered, the exchange ends only by a
   return on a matched update or by the timeout error of the deadline check:
   no failed fetch, failed acknowledgement, throwing handler, stranger's
   update or unmatched update ends it otherwise. *)
C9_OnlyTwoExits ==
    Waiting =>
        /\ error \in {"none", "TimeoutError"}
        /\ Done =>
              \/ /\ error = "TimeoutError"
                 /\ config.telegramTimeoutMs > 0
                 /\ Elapsed >= config.telegramTimeoutMs
              \/ /\ error = "none"
                 /\ IsMatchingEvent(events[lastUpdateId])
                 /\ result = events[lastUpdateId].data
                 /\ \E k \in HandlerEntries : log[k].id = lastUpdateId /\ log[k].ok

\* An exchange that ended after a failed fetch, a failed acknowledgement, a
\* throwing handler, a stranger's update and an unmatched update.
C9_Witness ==
    /\ Done /\ Waiting
    /\ fetches.failed >= 1
    /\ \/ \E k \in DOMAIN log : ~log[k].ok
       \/ \E n \in DOMAIN examined : ~IsMatchingEvent(events[examined[n]])

FetchFails == pc = "poll" /\ fetches'.failed > fetches.failed

(* C10: a failed fetch is an empty batch: the cursor does not move, no
   handler is invoked, no acknowledgement is sent, the loop goes on to the
   wait and polls again, and the failure is not thrown to the caller; when
   every fetch fails the exchange can only end with the timeout error. *)
C10_FailedFetchIsTransient ==
    /\ [][FetchFails =>
            /\ lastUpdateId' = lastUpdateId
            /\ log' = log /\ examined' = examined
            /\ calls'.answerCallbackQuery = calls.answerCallbackQuery
            /\ batch' = <<>>
            /\ pc' = "wait" /\ error' = "none"]_vars
    /\ [][pc = "wait" => pc' \in {"wait", "check"}]_vars
    /\ []((Done /\ Waiting /\ fetches.ok = 0) => error = "TimeoutError")
    /\ [](error # "PollingError")

C10_Witness ==
    /\ Done /\ error = "TimeoutError"
    /\ fetches.failed >= 1 /\ fetches.ok = 0
    /\ \E n \in DOMAIN events : IsMatchingEvent(events[n])

----------------------------------------------------------------------------
(* C11: when the delivery to one recipient fails the exchange fails with
   the delivery error: that send is not retried, no further recipient is
   sent to, no getUpdates is issued, no handler is invoked and nothing is
   returned, also when earlier recipients were delivered to. *)
C11_DeliveryFailureFailsExchange ==
    /\ "sendMessage" \in faults =>
          /\ Done /\ error = "DeliveryError"
          /\ calls.sendMessage = sendIdx
          /\ calls.getUpdates = 0 /\ calls.answerCallbackQuery = 0
          /\ log = <<>> /\ examined = <<>>
          /\ result = NoText
    /\ "sendMessage" \notin faults =>
          /\ error # "DeliveryError"
          /\ calls.sendMessage = sendIdx - 1
    /\ calls.sendMessage <= Len(config.telegramUserIds)

\* The send to the second recipient failed after the first was delivered to.
C11_Witness ==
    /\ Done /\ error = "DeliveryError"
    /\ "sendMessage" \in faults
    /\ sendIdx = 2 /\ calls.sendMessage = 2

(* C12: no sendMessage is issued before a getMe that succeeded, and when
   getMe fails the exchange fails with the auth error having issued no
   sendMessage and no getUpdates. *)
C12_GetMeBeforeSend ==
    /\ calls.sendMessage > 0 => calls.getMe = 1 /\ "getMe" \notin faults
    /\ "getMe" \in faults =>
          /\ Done /\ error = "BackendAuthError"
          /\ calls.sendMessage = 0 /\ calls.getUpdates = 0
    /\ error = "BackendAuthError" => "getMe" \in faults
    /\ calls.getMe <= 1

\* A run whose getMe failed.
C12_Witness ==
    /\ Done /\ error = "BackendAuthError"
    /\ calls.getMe = 1 /\ "getMe" \in faults

\* The first callback that the update satisfies.
FirstSatisfied(e) ==
    CHOOSE i \in DOMAIN callbacks :
        Satisfies(e, i) /\ \A j \in 1..(i - 1) : ~Satisfies(e, j)

(* C13: on success the returned value is exactly the raw payload of the
   update the exchange returned on (the callback data or the message text,
   unchanged, not the captured group nor the match array), and that update
   came from a configured user and satisfies a callback of this exchange. *)
C13_ReturnsRawPayload ==
    Returned =>
        /\ lastUpdateId \in DOMAIN events
        /\ result = events[lastUpdateId].data
        /\ result # NoText
        /\ IsMatchingEvent(events[lastUpdateId])

\* A return on a match of a RegExp command, whose group differs from the text.
C13_Witness ==
    /\ Returned
    /\ result = ContinueS1Fix
    /\ callbacks[FirstSatisfied(events[lastUpdateId])].isRegExp

(* C14: in every exchange that returns, the matched command's handler was
   invoked exactly once during the exchange and no handler of another
   command was invoked. *)
C14_OneHandlerPerReturn ==
    Returned =>
        /\ Cardinality(HandlerEntries) = 1
        /\ \A k \in HandlerEntries :
              /\ log[k].id = lastUpdateId
              /\ log[k].cb = FirstSatisfied(events[lastUpdateId])

(* What the code keeps of C14: the handler that completed is the matched
   command's, invoked once for the update returned on; the other entries
   are handlers that threw. *)
C14_OneCompletedHandlerPerReturn ==
    Returned =>
        /\ Cardinality({ k \in HandlerEntries : log[k].ok }) = 1
        /\ \A k \in HandlerEntries : log[k].ok =>
              /\ log[k].id = lastUpdateId
              /\ log[k].cb = FirstSatisfied(events[lastUpdateId])

(* C15: an exchange with no deadline (telegramTimeoutMs = 0) never fails
   with the timeout error and has no iteration cap: its deadline check
   always goes on to the poll, so it ends only by a return on a match. *)
C15_NoDeadlineNeverTimesOut ==
    /\ [](config.telegramTimeoutMs = 0 =>
            /\ error # "TimeoutError"
            /\ (Done /\ Waiting) => Returned)
    /\ [][(config.telegramTimeoutMs = 0 /\ pc = "check" /\ pc' # "check")
            => pc' = "poll"]_vars

\* The third iteration of an exchange with no deadline and no match so far.
C15_Witness ==
    /\ config.telegramTimeoutMs = 0
    /\ pc = "poll"
    /\ fetches.ok + fetches.failed >= 2
    /\ now - startTime >= 2000

(* C17: for a RegExp command matched by a text of a configured user the
   handler receives the match result, whose group 1 is the captured text
   ("fix" for "/continue s1 fix"), while the exchange returns the whole raw
   text; for a string command the handler receives the whole text. *)
C17_HandlerGetsMatch ==
    /\ \A k \in HandlerEntries :
          LET e == events[log[k].id]
              cb == callbacks[log[k].cb]
          IN  e.kind = "message" =>
                 IF cb.isRegExp
                 THEN /\ Len(log[k].arg) = 2
                      /\ log[k].arg[1] = e.data
                      /\ log[k].arg[2] = RegExpExec(cb.command.words, e.data, 1)[1]
                      /\ (cb.command.words = <<"/continue", "s1">>
                             /\ e.data = ContinueS1Fix)
                            => log[k].arg[2] = <<"fix">>
                 ELSE log[k].arg = e.data
    /\ (Returned /\ events[lastUpdateId].kind = "message")
          => result = events[lastUpdateId].data

C17_Witness ==
    /\ Returned /\ result = ContinueS1Fix
    /\ \E k \in HandlerEntries :
          /\ log[k].id = lastUpdateId
          /\ events[log[k].id].kind = "message"
          /\ log[k].arg = <<ContinueS1Fix, <<"fix">> >>

\* Configured poll intervals: negative, 0, below, at and above the floor.
SampleIntervals == {0 - 500, 0 - 1, 0, 1, 200, 999, 1000, 1001, 1500}

(* C18: the wait between two consecutive fetches is
   max(configured pollIntervalMs, 1000 ms): every fetch but the first comes
   after a wait, and the wait lasts the configured interval when that is
   above 1000 ms and 1000 ms otherwise, also when the configured value is
   0 or negative. *)
C18_PollIntervalFloor ==
    /\ [][(pc = "wait" /\ pc' # "wait") =>
            /\ pc' = "check"
            /\ now' - now >= 1000
            /\ now' - now = IF config.telegramPollIntervalMs > 1000
                            THEN config.telegramPollIntervalMs ELSE 1000]_vars
    /\ [][(pc' = "poll" /\ pc # "poll") => pc = "check"]_vars
    /\ [][(pc' = "check" /\ pc # "check") => pc \in {"prime", "wait"}]_vars
    /\ [](\A p \in SampleIntervals :
            LET w == PollIntervalMs([telegramPollIntervalMs |-> p])
            IN  w >= 1000 /\ w >= p /\ w \in {p, 1000})

\* A second fetch of an exchange configured with the interval 0.
C18_Witness ==
    /\ config.telegramPollIntervalMs = 0
    /\ pc = "poll"
    /\ fetches.ok + fetches.failed = 1
    /\ now - startTime >= 1000

----------------------------------------------------------------------------
(* Vocabulary of the properties of two exchanges *)

\* A step of the second exchange.
OtherStep == other' # other

\* This exchange is in its poll loop.
Polling == pc \in {"check", "poll", "process", "wait"}

\* The updates the bot has dropped that this exchange has neither passed with
\* its cursor nor holds in its batch: no fetch will return them to it.
Lost ==
    { n \in DOMAIN events :
        /\ n < confirmed
        /\ n > lastUpdateId
        /\ \A k \in DOMAIN batch : batch[k].update_id # n }

(* C16: two exchanges that run concurrently on the same backend are
   isolated: a step of the second exchange changes neither the cursor nor
   the position, result or error of this exchange, and it takes away no
   update that this exchange, in its poll loop, was still to fetch, so that
   this exchange resolves on the updates it would resolve on alone. *)
C16_ExchangesIsolated ==
    /\ [][OtherStep =>
            /\ lastUpdateId' = lastUpdateId
            /\ pc' = pc /\ result' = result /\ error' = error]_vars
    /\ [][(OtherStep /\ Polling) => Lost' \subseteq Lost]_vars

\* What holds of C16: the cursor and the outcome are local to the exchange.
C16_CursorIsLocal ==
    [][OtherStep =>
         /\ lastUpdateId' = lastUpdateId
         /\ pc' = pc /\ result' = result /\ error' = error]_vars

\* This exchange primed its cursor at update 1, user 42 then pressed its stop
\* button (update 2), and it is about to fetch from offset 2: the second
\* exchange's fetch has made the bot drop the press, so the fetch returns
\* nothing.  Alone, the fetch returns the press: Lost is then always empty.
C16_MissedPress ==
    /\ pc = "poll"
    /\ lastUpdateId = 1 /\ examined = <<>>
    /\ 2 \in Lost
    /\ UpdatesFrom(PollOffset(lastUpdateId)) = <<>>
    /\ events[2] = [update_id |-> 2, kind |-> "callback_query", from |-> 42,
                    data |-> StopS1]

----------------------------------------------------------------------------
(* Vocabulary of the permission hook's properties *)

Exited == hook.pc = "exit"
ToolInAutoApprovedList ==
    hook.parses /\ hook.tool_name \in hook.permissionHookToolsAutoApproved

(* C19 as stated: when the requested tool is in
   permissionHookToolsAutoApproved the permission hook emits "allow" and
   exits 0 without any Bot API call, for every configuration. *)
C19_AutoApprovedAlwaysAllowed ==
    ToolInAutoApprovedList =>
        /\ NoCalls
        /\ Exited => hook.output = <<"allow">> /\ hook.exitCode = 0

(* C19: when the hook is enabled and the requested tool is in
   permissionHookToolsAutoApproved, the hook emits "allow" and exits 0
   without any Bot API call, whatever the Telegram configuration and the
   length of the message; when the hook is disabled it emits no decision and
   exits 2, also for a tool of the list. *)
C19_AutoApprovedAllowedWhenEnabled ==
    /\ (ToolInAutoApprovedList /\ hook.permissionHookEnabled) =>
          /\ NoCalls /\ pc = "idle"
          /\ Exited => hook.output = <<"allow">> /\ hook.exitCode = 0
    /\ (ToolInAutoApprovedList /\ ~hook.permissionHookEnabled) =>
          /\ NoCalls /\ pc = "idle"
          /\ Exited => hook.output = <<>> /\ hook.exitCode = 2

\* An auto-approved tool allowed with Telegram disabled and no user ids.
C19_Witness ==
    /\ Exited /\ ToolInAutoApprovedList /\ hook.permissionHookEnabled
    /\ ~hook.telegramEnabled /\ config.telegramUserIds = <<>>
    /\ hook.output = <<"allow">> /\ hook.exitCode = 0

(* C20: when sendTelegramMessage ends with the timeout error, which it does
   no earlier than permissionHookTimeoutMs after the start of waiting, the
   hook emits exactly one decision, "allow" if permissionHookAllowOnTimeout
   and "deny" otherwise, and exits 0; sendTelegramMessage itself returns
   nothing and emits no decision. *)
C20_TimeoutDecision ==
    error = "TimeoutError" =>
        /\ result = NoText
        /\ now - startTime >= hook.permissionHookTimeoutMs
        /\ hook.pc = "call" => hook.output = <<>>
        /\ Exited =>
              /\ Len(hook.output) = 1
              /\ hook.permissionHookAllowOnTimeout => hook.output[1] = "allow"
              /\ ~hook.permissionHookAllowOnTimeout => hook.output[1] = "deny"
              /\ hook.exitCode = 0

\* A timeout that allows, after a stranger pressed the approve button.
C20_Witness ==
    /\ Exited /\ error = "TimeoutError"
    /\ hook.permissionHookAllowOnTimeout
    /\ hook.output = <<"allow">> /\ hook.exitCode = 0
    /\ \E n \in DOMAIN events : events[n].from = 99

----------------------------------------------------------------------------
(* Vocabulary of the later broker properties *)

PrimingFailed == "getUpdates" \in faults
InLoop == pc \in {"check", "poll", "process", "wait"}
PollingFetches == fetches.ok + fetches.failed

(* C22: delivery, priming and the poll loop run in that order: the priming
   getUpdates is issued exactly once, after the message was delivered to
   every recipient and before the first polling getUpdates; what it returns
   is discarded with no handler and no acknowledgement, and the cursor
   becomes the id of the last update it returned, 0 when it returned none. *)
C22_PrimingOnceBetweenSendAndPoll ==
    /\ [](pc \in {"start", "init", "send", "prime"} =>
            calls.getUpdates = 0 /\ PollingFetches = 0)
    /\ [](calls.getUpdates >= 1 =>
            /\ calls.sendMessage = Len(config.telegramUserIds)
            /\ "sendMessage" \notin faults
            /\ PollingFetches = calls.getUpdates - 1)
    /\ [][(pc' = "prime" /\ pc # "prime") =>
            pc = "send" /\ calls'.sendMessage = Len(config.telegramUserIds)]_vars
    /\ [][(pc = "prime" /\ pc' # "prime") =>
            /\ pc' = "check"
            /\ calls'.getUpdates = 1
            /\ calls'.answerCallbackQuery = 0
            /\ log' = <<>> /\ examined' = <<>> /\ result' = NoText
            /\ ~PrimingFailed' => lastUpdateId' = Len(events)]_vars

\* Priming returned two updates, the last one a matching response, and
\* discarded them.
C22_Witness ==
    /\ pc = "check" /\ ~PrimingFailed
    /\ calls.getUpdates = 1
    /\ Len(events) = 2 /\ lastUpdateId = 2
    /\ IsMatchingEvent(events[2])
    /\ log = <<>>

(* C23: when the priming getUpdates fails the exchange does not abort: the
   cursor is 0, the poll loop starts, and every update the later fetches
   return is considered, from the first update on and with none skipped. *)
C23_PrimingFailureNonFatal ==
    /\ [](PrimingFailed => error \in {"none", "TimeoutError"})
    /\ [](PrimingFailed => \A k \in DOMAIN examined : examined[k] = k)
    /\ [][(pc = "prime" /\ PrimingFailed') =>
            pc' = "check" /\ lastUpdateId' = 0 /\ error' = "none"]_vars
    /\ [][(PrimingFailed /\ pc = "poll" /\ fetches'.ok = fetches.ok + 1) =>
            batch' = SubSeq(events, lastUpdateId + 1, Len(events))]_vars

\* After a failed priming, two updates were considered and the exchange
\* returned on the second.
C23_Witness ==
    /\ PrimingFailed /\ Returned
    /\ examined = <<1, 2>>

(* C24: in the for-loop over a batch the cursor is set to the id of each
   update before the update is looked at, whatever becomes of it
   (unauthorized, unmatched, matched, failed): after an update was processed
   the cursor is its id, and no later fetch returns it again. *)
C24_CursorAdvancesRegardless ==
    /\ [][examined' # examined =>
            /\ pc = "process"
            /\ examined' = Append(examined, Head(batch).update_id)
            /\ lastUpdateId' = Head(batch).update_id]_vars
    /\ [](examined # <<>> => lastUpdateId = examined[Len(examined)])
    /\ [][fetches'.ok = fetches.ok + 1 =>
            \A k \in DOMAIN batch' : \A j \in DOMAIN examined :
                batch'[k].update_id > examined[j]]_vars

\* A stranger's update was passed by the cursor, and a later fetch went
\* by without it.
C24_Witness ==
    /\ Len(examined) = 1
    /\ lastUpdateId = examined[1]
    /\ ~FromConfiguredUser(events[lastUpdateId])
    /\ fetches.ok >= 2

\* A deadline is set and has elapsed.
DeadlineElapsed ==
    config.telegramTimeoutMs > 0 /\ now - startTime >= config.telegramTimeoutMs

(* C25: the deadline is checked at the top of every iteration, before the
   fetch: an iteration that begins with the deadline elapsed ends the
   exchange with the timeout error and issues no fetch and no handler, so no
   exchange returns on an update fetched in such an iteration; an iteration
   that begins before the deadline goes on to the fetch. *)
C25_DeadlineCheckedBeforeFetch ==
    /\ [][(pc = "check" /\ pc' # "check" /\ DeadlineElapsed) =>
            /\ pc' = "done" /\ error' = "TimeoutError"
            /\ calls' = calls /\ log' = log /\ result' = NoText]_vars
    /\ [][(pc = "check" /\ pc' # "check" /\ ~DeadlineElapsed) =>
            pc' = "poll" /\ error' = "none"]_vars
    /\ [][(pc' = "poll" /\ pc # "poll") => pc = "check"]_vars
    /\ []((config.telegramTimeoutMs > 0 /\ (pc \in {"poll", "process"} \/ Returned))
            => (now - busy) - startTime < config.telegramTimeoutMs)
    /\ [](error = "TimeoutError" => DeadlineElapsed)

\* The exchange timed out with a matching response pending that no fetch
\* had been able to return: it came when the deadline had elapsed.
C25_Witness ==
    /\ Done /\ error = "TimeoutError"
    /\ ~PrimingFailed /\ fetches.failed = 0 /\ fetches.ok >= 1 /\ log = <<>>
    /\ \E n \in DOMAIN events : n > lastUpdateId /\ IsMatchingEvent(events[n])

\* The update is a button press of a configured user, with data, that
\* satisfies no callback of the exchange.
IsUnknownPress(e) ==
    /\ e.kind = "callback_query" /\ e.data # NoText
    /\ FromConfiguredUser(e)
    /\ \A i \in DOMAIN callbacks : ~Satisfies(e, i)

EntriesOf(n) == { k \in DOMAIN log : log[k].id = n }

(* C26 as stated: a button press of a configured user that matches no
   inline-button callback is acknowledged, invokes no handler, does not end
   the exchange, and processing continues with the next update of the
   batch. *)
C26_UnknownPressContinuesBatch ==
    [][(examined' # examined /\ IsUnknownPress(Head(batch))) =>
         /\ calls'.answerCallbackQuery = calls.answerCallbackQuery + 1
         /\ Len(log') = Len(log) + 1
         /\ log'[Len(log')].op = "answerCallbackQuery"
         /\ pc' # "done" /\ result' = NoText /\ error' = "none"
         /\ batch' = Tail(batch)
         /\ pc' = IF Tail(batch) = <<>> THEN "wait" ELSE "process"]_vars

(* C26: for a button press of a configured user that matches no
   inline-button callback one answerCallbackQuery is issued, no handler is
   invoked and the exchange does not end; when the acknowledgement returns,
   processing continues with the next update of the batch; when it fails,
   the rest of the batch is given up and the exchange goes to the wait, and
   the next update examined, if any, is still the one after the press. *)
C26_UnknownPressAcknowledged ==
    /\ [](\A j \in DOMAIN examined :
            IsUnknownPress(events[examined[j]]) =>
               /\ Cardinality(EntriesOf(examined[j])) = 1
               /\ \A k \in EntriesOf(examined[j]) : log[k].op = "answerCallbackQuery"
               /\ j < Len(examined) => examined[j + 1] = examined[j] + 1)
    /\ [][(examined' # examined /\ IsUnknownPress(Head(batch))) =>
            /\ calls'.answerCallbackQuery = calls.answerCallbackQuery + 1
            /\ Len(log') = Len(log) + 1
            /\ pc' # "done" /\ result' = NoText /\ error' = "none"
            /\ log'[Len(log')].ok =>
                  /\ batch' = Tail(batch)
                  /\ pc' = IF Tail(batch) = <<>> THEN "wait" ELSE "process"
            /\ ~log'[Len(log')].ok => batch' = <<>> /\ pc' = "wait"]_vars

\* An unknown press was acknowledged and the next update of the same batch
\* is up.
C26_Witness ==
    /\ pc = "process" /\ batch # <<>>
    /\ examined # <<>>
    /\ IsUnknownPress(events[lastUpdateId])
    /\ \E k \in EntriesOf(lastUpdateId) : log[k].ok
    /\ Head(batch).update_id = lastUpdateId + 1

\* Processing this update finds a match: it comes from a configured user
\* and satisfies a callback.
ProcessesMatch == examined' # examined /\ IsMatchingEvent(Head(batch))

(* C27: a match ends the exchange at once: processing a matching update
   ends the exchange, and the updates that follow a matched update in the
   batch get no handler and no acknowledgement and the cursor never moves
   past the matched update's id, also when they match too. *)
C27_MatchEndsBatch ==
    /\ [][ProcessesMatch =>
            pc' = "done" /\ error' = "none" /\ batch' = Tail(batch)]_vars
    /\ [](\A j \in DOMAIN examined :
            IsMatchingEvent(events[examined[j]]) =>
               /\ j = Len(examined)
               /\ lastUpdateId = examined[j]
               /\ \A k \in DOMAIN log : log[k].id <= examined[j])

(* What the code keeps of C27: an exchange that returns ends at once, the
   updates left of the batch get no handler and no acknowledgement, and the
   cursor stays at the update returned on. *)
C27_ReturnEndsBatch ==
    /\ [][result' # result => pc' = "done" /\ batch' = Tail(batch)]_vars
    /\ [](Returned =>
            /\ examined # <<>> /\ lastUpdateId = examined[Len(examined)]
            /\ \A k \in DOMAIN batch :
                  /\ batch[k].update_id > lastUpdateId
                  /\ EntriesOf(batch[k].update_id) = {})
    /\ [][Done => UNCHANGED vars]_vars

\* Processing this update finds a text of a configured user that satisfies
\* a callback of either type.
ProcessesMatchingText ==
    /\ examined' # examined
    /\ Head(batch).kind = "message" /\ Head(batch).data # NoText
    /\ FromConfiguredUser(Head(batch))
    /\ \E i \in DOMAIN callbacks : CommandMatches(callbacks[i], Head(batch).data)

(* C28: a button press is matched against the inline-button callbacks only,
   so a press whose data satisfies only a hidden callback invokes no handler
   and never ends the exchange; a text is matched against every callback, so
   a text that satisfies a callback of either type, such as a typed
   inline-button command, invokes its handler and ends the exchange with
   the text. *)
C28_KindsMatchedAsymmetrically ==
    /\ [](\A k \in HandlerEntries :
            events[log[k].id].kind = "callback_query" =>
                callbacks[log[k].cb].type = "inline-button")
    /\ [](Returned /\ events[lastUpdateId].kind = "callback_query" =>
            \E i \in DOMAIN callbacks :
                /\ callbacks[i].type = "inline-button"
                /\ CommandMatches(callbacks[i], events[lastUpdateId].data))
    /\ [][ProcessesMatchingText =>
            /\ Len(log') = Len(log) + 1
            /\ log'[Len(log')].op = "handler"
            /\ CommandMatches(callbacks[log'[Len(log')].cb], Head(batch).data)
            /\ pc' = "done" /\ error' = "none" /\ result' = Head(batch).data]_vars

(* What the code keeps of C28: the matching is asymmetric as stated, and a
   matching text ends the exchange when its handler completes. *)
C28_KindsMatchedWhenHandlerCompletes ==
    /\ [](\A k \in HandlerEntries :
            events[log[k].id].kind = "callback_query" =>
                callbacks[log[k].cb].type = "inline-button")
    /\ [](Returned /\ events[lastUpdateId].kind = "callback_query" =>
            \E i \in DOMAIN callbacks :
                /\ callbacks[i].type = "inline-button"
                /\ CommandMatches(callbacks[i], events[lastUpdateId].data))
    /\ [][ProcessesMatchingText =>
            /\ Len(log') = Len(log) + 1
            /\ log'[Len(log')].op = "handler"
            /\ CommandMatches(callbacks[log'[Len(log')].cb], Head(batch).data)
            /\ log'[Len(log')].ok =>
                  pc' = "done" /\ error' = "none" /\ result' = Head(batch).data]_vars

----------------------------------------------------------------------------
(* Further properties of the permission hook *)

Allowed == \E k \in DOMAIN hook.output : hook.output[k] = "allow"

\* The hook ended at one of its configuration checks, before any exchange.
EndedAtChecks == Exited /\ pc = "idle"

(* C29: over every path of an invocation "allow" is emitted only if (a) the
   hook is enabled and the tool is auto-approved, or (b) the exchange
   returned the "/approve s1 t1" command of this request, or (c) the
   exchange timed out and permissionHookAllowOnTimeout is true.  The paths
   that end at hook disabled, Telegram disabled, no token, no user ids or
   message too long, and those through an auth failure, a delivery failure
   or a deny response emit no "allow". *)
C29_AllowOnlyWhenApproved ==
    /\ Allowed =>
          \/ /\ hook.parses /\ hook.permissionHookEnabled
             /\ hook.tool_name \in hook.permissionHookToolsAutoApproved
             /\ EndedAtChecks
          \/ /\ hook.permissionHookEnabled
             /\ Returned /\ result = ApproveS1T1
             /\ FromConfiguredUser(events[lastUpdateId])
          \/ /\ hook.permissionHookEnabled
             /\ error = "TimeoutError" /\ hook.permissionHookAllowOnTimeout
    /\ ~hook.parses => ~Allowed
    /\ ~hook.permissionHookEnabled => ~Allowed
    /\ (EndedAtChecks /\ hook.parses
          /\ hook.tool_name \notin hook.permissionHookToolsAutoApproved) => ~Allowed
    /\ error \in {"MessageTooLong", "BackendAuthError", "DeliveryError",
                  "PollingError"} => ~Allowed
    /\ (Returned /\ result # ApproveS1T1) => ~Allowed

\* The approve button of this request was pressed, after the approve button
\* of an earlier request was passed over, and the hook emitted "allow".
C29_Witness ==
    /\ Exited /\ Returned /\ result = ApproveS1T1
    /\ hook.output = <<"allow">>
    /\ \E j \in DOMAIN examined : events[examined[j]].data = ApproveS1T0

(* C30: an invocation emits at most one decision, and it exits with code 0
   exactly when it emitted one; every path that emits none (input that does
   not parse, hook disabled, Telegram disabled, no token, no user ids,
   message too long, a response that is neither approve nor deny, an error
   that is not the timeout) exits with code 2. *)
C30_ExitCodeMatchesDecision ==
    /\ Len(hook.output) <= 1
    /\ ~Exited => hook.output = <<>> /\ hook.exitCode = 0 - 1
    /\ Exited =>
          /\ hook.exitCode \in {0, 2}
          /\ hook.exitCode = 0 <=> Len(hook.output) = 1
          /\ hook.output = <<>> => hook.exitCode = 2
          /\ (EndedAtChecks /\ ~Allowed) => hook.exitCode = 2
          /\ error \notin {"none", "TimeoutError"} => hook.exitCode = 2
          /\ (Returned /\ result \notin {ApproveS1T1, DenyS1T1}) => hook.exitCode = 2

\* A delivery failure ended the invocation with code 2 and no decision.
C30_Witness ==
    /\ Exited /\ error = "DeliveryError"
    /\ hook.output = <<>> /\ hook.exitCode = 2

----------------------------------------------------------------------------
(* Properties of the stop hook *)

Blocks(o) == "decision" \in DOMAIN o /\ o.decision = "block"
Blocked == \E k \in DOMAIN hook.output : Blocks(hook.output[k])

\* The exchange returned a text "/continue s1 <reason>" of a configured user.
ResolvedWithContinue ==
    /\ Returned
    /\ events[lastUpdateId].kind = "message"
    /\ FromConfiguredUser(events[lastUpdateId])
    /\ Len(result) > 4
    /\ SubSeq(result, 1, 4) = <<"/continue", SP, "s1", SP>>

(* C21: the stop hook emits {decision: "block", reason} exactly when the
   exchange returned a text "/continue s1 <reason>" of a configured user,
   the reason being the text after the session id; when the exchange
   returned "/stop s1" it emits nothing; on the timeout error it emits one
   object with no decision; in these three cases it exits 0; on any other
   error it exits 1 and emits no block decision. *)
C21_StopOutcomeMapping ==
    Exited =>
        /\ Blocked <=> ResolvedWithContinue
        /\ ResolvedWithContinue =>
              /\ hook.output = << [decision |-> "block",
                                   reason |-> SubSeq(result, 5, Len(result))] >>
              /\ hook.exitCode = 0
        /\ (Returned /\ result = StopS1) =>
              hook.output = <<>> /\ hook.exitCode = 0
        /\ error = "TimeoutError" =>
              /\ Len(hook.output) = 1
              /\ "decision" \notin DOMAIN hook.output[1]
              /\ hook.exitCode = 0
        /\ (~hook.parses \/ error \notin {"none", "TimeoutError"}) =>
              hook.output = <<>> /\ hook.exitCode = 1

\* User 42 wrote "/continue s1 fix" and the hook blocked with reason "fix".
C21_Witness ==
    /\ Exited /\ ResolvedWithContinue
    /\ hook.output = << [decision |-> "block", reason |-> <<"fix">>] >>
    /\ hook.exitCode = 0

----------------------------------------------------------------------------
(* Properties of the cursor and of the loop *)

\* A matching update that the priming getUpdates did not return.
LaterMatch ==
    \E n \in DOMAIN events : n \notin clearedIds /\ IsMatchingEvent(events[n])

(* C31: the updates pending at the Bot API when the priming getUpdates
   succeeds, those that arrived before the delivery and those that arrived
   between the delivery and the priming, are never matched: none is
   examined, none gets a handler or an acknowledgement, the exchange returns
   on none; and unless a matching update arrives later, a finished exchange
   ended with the timeout error and an exchange without deadline has not
   ended. *)
C31_ClearedUpdatesNeverMatched ==
    (Waiting /\ ~PrimingFailed) =>
        /\ \A n \in DOMAIN events : n \in oldIds => n \in clearedIds
        /\ \A n \in clearedIds :
              /\ EntriesOf(n) = {}
              /\ \A j \in DOMAIN examined : examined[j] # n
              /\ n <= lastUpdateId
              /\ Returned => lastUpdateId # n
        /\ (Done /\ ~LaterMatch) =>
              error = "TimeoutError" /\ config.telegramTimeoutMs > 0
        /\ (config.telegramTimeoutMs = 0 /\ ~LaterMatch) => ~Done

\* A matching response of a configured user arrived after the delivery and
\* before the priming; the exchange polled and ended with the timeout error.
C31_Witness ==
    /\ Done /\ error = "TimeoutError" /\ ~PrimingFailed
    /\ fetches.ok >= 1
    /\ \E n \in clearedIds : n \notin oldIds /\ IsMatchingEvent(events[n])

\* The log entries of a failed acknowledgement or of a handler that threw,
\* for an update that matched.
FailedEntries ==
    { k \in DOMAIN log : ~log[k].ok /\ IsMatchingEvent(events[log[k].id]) }

\* Processing this update fails: the acknowledgement of the matched press
\* fails, or the handler of the match throws.
MatchFails ==
    /\ examined' # examined
    /\ IsMatchingEvent(Head(batch))
    /\ Len(log') > Len(log) /\ ~log'[Len(log')].ok

(* C32: when the acknowledgement of a matched button press fails, or the
   handler of a match throws, the failure is absorbed: nothing is thrown and
   nothing returned, the cursor is at that update, the rest of the batch is
   given up and the exchange goes to the wait; the update is never examined
   again and the exchange never returns on it; the next successful fetch
   returns the updates above the cursor, those left of the batch included;
   and the exchange ends only with a return on a later update or with the
   timeout error. *)
C32_MatchFailureAbsorbed ==
    /\ [][MatchFails =>
            /\ pc' = "wait" /\ error' = "none" /\ result' = NoText
            /\ lastUpdateId' = Head(batch).update_id
            /\ batch' = <<>>]_vars
    /\ [](\A k \in FailedEntries :
            /\ log[k].id <= lastUpdateId
            /\ Cardinality({ j \in DOMAIN examined : examined[j] = log[k].id }) = 1
            /\ Cardinality({ j \in AckEntries : log[j].id = log[k].id }) <= 1
            /\ Cardinality({ j \in HandlerEntries : log[j].id = log[k].id }) <= 1
            /\ Done =>
                  \/ error = "TimeoutError"
                  \/ Returned /\ lastUpdateId > log[k].id
                              /\ result = events[lastUpdateId].data)
    /\ [][(pc = "poll" /\ fetches'.ok = fetches.ok + 1) =>
            batch' = SubSeq(events, lastUpdateId + 1, Len(events))]_vars

\* The match on update 1 failed (its acknowledgement, or its handler); the
\* fetch after the wait returned update 2 and the exchange returned on it.
C32_Witness ==
    /\ Returned /\ lastUpdateId = 2 /\ examined = <<1, 2>>
    /\ FailedEntries # {}
    /\ fetches.ok = 2 /\ fetches.failed = 0
    /\ now = startTime + 1000

(* C33: the Bot API returning the updates with update_id at or above the
   offset in ascending order, the cursor never decreases once it is primed,
   and every update the for-loop examines has an update_id strictly greater
   than the cursor was at the fetch that returned it: a fetch returns only
   ids above the cursor, in ascending order, and the cursor moves through
   the batch from one id to the next. *)
C33_CursorMonotone ==
    /\ [][lastUpdateId' >= lastUpdateId]_vars
    /\ [][(pc = "poll" /\ fetches'.ok = fetches.ok + 1) =>
            /\ lastUpdateId' = lastUpdateId
            /\ \A k \in DOMAIN batch' : batch'[k].update_id > lastUpdateId
            /\ \A j, k \in DOMAIN batch' :
                  j < k => batch'[j].update_id < batch'[k].update_id]_vars
    /\ [][examined' # examined =>
            /\ Head(batch).update_id > lastUpdateId
            /\ lastUpdateId' = Head(batch).update_id
            /\ \A k \in DOMAIN batch' : batch'[k].update_id > lastUpdateId']_vars
    /\ [](\A k \in DOMAIN batch : batch[k].update_id > lastUpdateId)
    /\ [](\A j \in DOMAIN examined :
            examined[j] \notin clearedIds /\ examined[j] <= lastUpdateId)

\* The cursor was primed at update 1 and moved to update 2, which a fetch
\* at cursor 1 returned.
C33_Witness ==
    /\ ~PrimingFailed /\ clearedIds = {1}
    /\ examined = <<2>> /\ lastUpdateId = 2
    /\ pc = "wait"

(* C34: with a deadline D > 0, an exchange that has reached the poll loop
   eventually ends, with a return or with the timeout error, when each call
   it awaits completes: whatever fetches fail, whatever updates of strangers
   or unmatched updates arrive, and whatever handlers throw. *)
C34_DeadlineTerminates ==
    (InLoop /\ config.telegramTimeoutMs > 0)
        ~> (Done /\ error \in {"none", "TimeoutError"})

\* An exchange that ended with the timeout error in its third iteration,
\* after a failed fetch and a match whose handler threw.
C34_Witness ==
    /\ Done /\ error = "TimeoutError"
    /\ config.telegramTimeoutMs = 1500
    /\ fetches.failed >= 1 /\ fetches.ok >= 1
    /\ \E k \in HandlerEntries : ~log[k].ok

----------------------------------------------------------------------------
(* The permission hook and the commands of other requests *)

\* The command strings of this request.
OwnCommands == {ApproveS1T1, DenyS1T1}

\* The update carries the approve or deny command of another session or of
\* another tool use, from a configured user.
IsForeignCommand(e) ==
    /\ FromConfiguredUser(e)
    /\ e.data \in {ApproveS1T0, ApproveS2T1}

(* C35: in the permission hook only an update that carries exactly this
   request's command string resolves the exchange.  A button press or a text
   of a configured user whose payload is the approve command of an earlier
   tool use of the session, or of another session, invokes no handler, does
   not end the exchange and changes nothing of the hook's output; the
   exchange returns only "/approve s1 t1" or "/deny s1 t1", carried by the
   update it returned on, and the decision emitted after a return is the one
   of that command. *)
C35_OnlyOwnCommandResolves ==
    /\ [][(examined' # examined /\ IsForeignCommand(Head(batch))) =>
            /\ pc' # "done" /\ result' = NoText /\ error' = "none"
            /\ hook' = hook
            /\ \A k \in DOMAIN log' : log'[k].op = "handler" => k \in DOMAIN log]_vars
    /\ [](\A k \in HandlerEntries : events[log[k].id].data \in OwnCommands)
    /\ [](Returned =>
            /\ result \in OwnCommands
            /\ events[lastUpdateId].data = result
            /\ FromConfiguredUser(events[lastUpdateId]))
    /\ [](hook.output # <<>> =>
            \/ EndedAtChecks
            \/ error = "TimeoutError"
            \/ Returned /\ result = ApproveS1T1 /\ hook.output = <<"allow">>
            \/ Returned /\ result = DenyS1T1 /\ hook.output = <<"deny">>)

\* The approve button of an earlier tool use and the approve button of
\* another session were pressed and passed over; the hook then timed out
\* and denied.
C35_Witness ==
    /\ Exited /\ error = "TimeoutError" /\ hook.output = <<"deny">>
    /\ Len(examined) = 2
    /\ events[examined[1]].data = ApproveS1T0
    /\ events[examined[2]].data = ApproveS2T1
    /\ \A j \in DOMAIN examined : FromConfiguredUser(events[examined[j]])

----------------------------------------------------------------------------
(* The stop hook's formatter *)

Formatted == hook.pc = "call"

(* C36: the formatter keeps the message within 4096 characters: for every
   session id, working directory, user message and assistant message,
   truncateMessage(m, n) returns at most n characters, formatMessage returns
   a text of at most 4096 characters, and the length validation of
   sendTelegramMessage does not reject it. *)
C36_FormatterWithinCeiling ==
    Formatted =>
        /\ Length(hook.formatted.truncatedUserMessage) <= hook.formatted.maxUserLen
        /\ Length(hook.formatted.truncatedAssistantMessage)
              <= hook.formatted.maxAssistantLen
        /\ textLen <= 4096
        /\ error # "MessageTooLong"

\* The template leaves room for both messages and their dots, and what is
\* left of the messages holds no "$&".
RoomAndPlain ==
    /\ hook.formatted.maxUserLen >= 3
    /\ hook.formatted.maxAssistantLen >= 3
    /\ hook.formatted.truncatedUserMessage.refs = 0
    /\ hook.formatted.truncatedAssistantMessage.refs = 0

(* What the code keeps of C36: when both maxima are at least 3 and the
   messages hold no "$&", each truncated message is within its maximum, the
   text is within 4096 characters and the validation accepts it. *)
C36_WithinCeilingWhenRoomAndPlain ==
    (Formatted /\ RoomAndPlain) =>
        /\ Length(hook.formatted.truncatedUserMessage) <= hook.formatted.maxUserLen
        /\ Length(hook.formatted.truncatedAssistantMessage)
              <= hook.formatted.maxAssistantLen
        /\ textLen <= 4096
        /\ error # "MessageTooLong"

\* Both messages were cut to their maxima and the text was accepted.
C36_BothTruncated ==
    /\ Formatted /\ RoomAndPlain /\ pc = "init"
    /\ hook.lastUserMessage = Text(0, 5000)
    /\ Length(hook.formatted.truncatedUserMessage) = 1000
    /\ hook.lastAssistantMessage = Text(0, 6000)
    /\ Length(hook.formatted.truncatedAssistantMessage) = hook.formatted.maxAssistantLen

====
